---- MODULE Spec2Model ----
(***************************************************************************)
(* Model of the Spin image-classification component (src/lib.rs): the HTTP *)
(* handler handle_spin_image_classification_demo, the pipeline classify    *)
(* (model load, image decode, inference, label resolution), get_label and  *)
(* the two From conversions into ClassificationError.                      *)
(*                                                                         *)
(* f32 scores are abstracted to the values NaN, 0.0, 1.0, ..., MaxScore.0; *)
(* the external libraries (tract, image) are environment choices: whether  *)
(* the embedded graph loads, whether the bytes decode, what the run        *)
(* returns.  The embedded label file is any table of at most MaxLabels     *)
(* lines, a line being a label or a line that is not valid UTF-8.          *)
(***************************************************************************)
EXTENDS Integers, Sequences, FiniteSets, TLC

\* ---------------------------------------------------------------- bounds
MaxBody == 2
MaxScores == 3
MaxScore == 1
MaxLabels == 2

\* ------------------------------------------------------------ value sets
Bytes == {0, 255}

NaN == -1

F32 == {NaN} \cup (0..MaxScore)

InvalidUtf8 == "<invalid utf-8>"

LabelLines == {"tench", "goldfish", InvalidUtf8}

SeqsUpTo(S, n) == UNION {[1..k -> S] : k \in 0..n}

Bodies == SeqsUpTo(Bytes, MaxBody)

ScoreVectors == SeqsUpTo(F32, MaxScores)

LabelTables == SeqsUpTo(LabelLines, MaxLabels)

\* which of the four fallible steps of model construction fails, if any
ModelFaults == {"none", "model_for_read", "with_input_fact", "into_optimized", "into_runnable"}

\* a tensor of the run's output: its datum type and, when f32, its elements
Tensors == {[datum_type |-> "f32", data |-> sv] : sv \in ScoreVectors}
             \cup {[datum_type |-> "i64", data |-> <<>>]}

\* what model.run can return: an error, or a vector of output tensors
RunResults == {[ok |-> FALSE, outputs |-> <<>>]}
                \cup {[ok |-> TRUE, outputs |-> <<>>]}
                \cup {[ok |-> TRUE, outputs |-> <<t>>] : t \in Tensors}

\* ----------------------------------------------------------------- state
VARIABLES
    pc,         \* position of the request: idle, load, decode, infer, resolve, respond, done
    model,      \* the embedded graph: the step of its construction that fails, or "none"
    labels,     \* the embedded label file, as its lines
    image,      \* the request body handed to classify
    decodable,  \* whether image::load_from_memory accepts these bytes
    outputs,    \* the tensors returned by model.run
    result,     \* classification_result, or the panic that ended the call
    response,   \* the HTTP response of the handler
    trace,      \* the stages classify has executed, each with its outcome
    lookups,    \* the arguments get_label was called with
    stdout,     \* println! lines of this request
    stderr      \* eprintln! lines of this request

vars == <<pc, model, labels, image, decodable, outputs, result, response,
          trace, lookups, stdout, stderr>>

\* ------------------------------------------------- results and responses
NoResult == [kind |-> "None", label |-> "", probability |-> 0, variant |-> "", msg |-> ""]

Ok(label, probability) ==
    [kind |-> "Ok", label |-> label, probability |-> probability, variant |-> "", msg |-> ""]

Err(variant, msg) ==
    [kind |-> "Err", label |-> "", probability |-> 0, variant |-> variant, msg |-> msg]

Panic(msg) ==
    [kind |-> "Panic", label |-> "", probability |-> 0, variant |-> "", msg |-> msg]

ClassificationError == {"ModelError", "ImageError", "IoError", "Unknown", "Unclassified"}

NoResponse == [status |-> 0, body |-> ""]

Response(status, body) == [status |-> status, body |-> body]

\* Display of an f32 ({}) and with four decimals ({:.4})
Display(p) == IF p = NaN THEN "NaN" ELSE ToString(p)

Fixed4(p) == IF p = NaN THEN "NaN" ELSE ToString(p) \o ".0000"

\* Debug ({:?}) of Option<ClassificationError>
Debug(e) ==
    IF e.variant = "Unclassified" THEN "Some(Unclassified)"
    ELSE "Some(" \o e.variant \o "(\"" \o e.msg \o "\"))"

\* ----------------------------------------------------------- conversions
FromTractError_Unknown(e) == Err("Unknown", e)

FromTractError(e) == Err("ModelError", e)

FromImageError_Model(e) == Err("ModelError", e)

FromImageError(e) == Err("ImageError", e)

\* ------------------------------------------------------ label resolution
\* f32::partial_cmp: no ordering when either side is NaN
partial_cmp(a, b) ==
    IF a = NaN \/ b = NaN THEN "None"
    ELSE IF a < b THEN "Less"
    ELSE IF a > b THEN "Greater"
    ELSE "Equal"

\* .zip(1..): each score paired with its 1-based position
zip(scores) == [i \in 1..Len(scores) |-> [probability |-> scores[i], class |-> i]]

NoneBest == [tag |-> "None", probability |-> 0, class |-> 0]

SomeBest(item) == [tag |-> "Some", probability |-> item.probability, class |-> item.class]

PanicBest == [tag |-> "Panic", probability |-> 0, class |-> 0]

\* a fold that keeps the earlier of two equal elements
max_by_fold_first(x, y) ==
    IF x.tag = "Panic" THEN x
    ELSE LET ord == partial_cmp(x.probability, y.probability)
         IN  IF ord = "None" THEN PanicBest
             ELSE IF ord = "Less" THEN SomeBest(y)
             ELSE x

\* one step of Iterator::max_by with |a, b| a.0.partial_cmp(&b.0).unwrap():
\* the accumulator is kept only when it compares Greater
max_by_fold(x, y) ==
    IF x.tag = "Panic" THEN x
    ELSE LET ord == partial_cmp(x.probability, y.probability)
         IN  IF ord = "None" THEN PanicBest
             ELSE IF ord = "Greater" THEN x
             ELSE SomeBest(y)

RECURSIVE reduce(_, _, _)
reduce(items, k, acc) ==
    IF k > Len(items) THEN acc
    ELSE reduce(items, k + 1, max_by_fold(acc, items[k]))

\* a resolver that falls back to the first class when there is no maximum
max_by_or_first(items) ==
    IF Len(items) = 0 THEN SomeBest([probability |-> 0, class |-> 1])
    ELSE reduce(items, 2, SomeBest(items[1]))

\* Iterator::max_by: None on an empty iterator, else the fold from the first item
max_by(items) ==
    IF Len(items) = 0 THEN NoneBest
    ELSE reduce(items, 2, SomeBest(items[1]))

\* a lookup that wraps the line number into the table
get_label_wrap(num) ==
    IF Len(labels) = 0 THEN Panic("cannot get prediction label")
    ELSE LET line == labels[((num - 1) % Len(labels)) + 1]
         IN  IF line = InvalidUtf8 THEN Err("anyhow", "stream did not contain valid UTF-8")
             ELSE Ok(line, 0)

\* a lookup that takes the class as a 0-based line number
get_label_zero_based(num) ==
    IF num + 1 > Len(labels) THEN Panic("cannot get prediction label")
    ELSE LET line == labels[num + 1]
         IN  IF line = InvalidUtf8 THEN Err("anyhow", "stream did not contain valid UTF-8")
             ELSE Ok(line, 0)

\* get_label: line num of the label file; the label is in the label field
get_label(num) ==
    IF num = 0 THEN Panic("attempt to subtract with overflow")
    ELSE IF num - 1 >= Len(labels) THEN Panic("cannot get prediction label")
    ELSE LET line == labels[num]
         IN  IF line = InvalidUtf8 THEN Err("anyhow", "stream did not contain valid UTF-8")
             ELSE Ok(line, 0)

\* classify from "let best" to its end, on the tensors the run returned:
\* the call's result and the arguments get_label was called with
label_resolution(outs) ==
    IF Len(outs) = 0
    THEN [result |-> Panic("index out of bounds"), lookups |-> <<>>]
    ELSE IF outs[1].datum_type # "f32"
    THEN [result |-> FromTractError("to_array_view"), lookups |-> <<>>]
    ELSE LET best == max_by(zip(outs[1].data))
         IN  IF best.tag = "Panic"
             THEN [result |-> Panic("called Option::unwrap() on a None value"),
                   lookups |-> <<>>]
             ELSE IF best.tag = "None"
             THEN [result |-> Err("Unclassified", ""), lookups |-> <<>>]
             ELSE LET l == get_label(best.class)
                  IN  [result |-> IF l.kind = "Ok" THEN Ok(l.label, best.probability)
                                  ELSE IF l.kind = "Err" THEN FromTractError(l.msg)
                                  ELSE l,
                       lookups |-> <<best.class>>]

\* --------------------------------------------------------------- handler
is_empty_never(v) == FALSE

is_empty(v) == Len(v) = 0

\* a failure response that names the error
error_response_leak(e) == Response(500, "Error during classification: " \o e.variant)

\* the response to a failed classification
error_response(e) == Response(500, "Error during classification")

\* the response to a successful classification
success_response(r) ==
    Response(200, "{\"Predicted label\": \"" \o r.label \o "\", \"Probability\": "
                   \o Fixed4(r.probability) \o "}")

Stage(name, outcome) == [stage |-> name, outcome |-> outcome]

StageOk == [kind |-> "Ok", label |-> "", probability |-> 0, variant |-> "", msg |-> ""]

\* ------------------------------------------------------------------ init
Init ==
    /\ pc = "idle"
    /\ model \in ModelFaults
    /\ labels \in LabelTables
    /\ image = <<>>
    /\ decodable = FALSE
    /\ outputs = <<>>
    /\ result = NoResult
    /\ response = NoResponse
    /\ trace = <<>>
    /\ lookups = <<>>
    /\ stdout = <<>>
    /\ stderr = <<>>

\* --------------------------------------------------------------- actions
\* a request arrives with an empty body: 400, classify is not called
RejectEmpty(body) ==
    /\ pc \in {"idle", "done"}
    /\ is_empty(body)
    /\ image' = body
    /\ decodable' = FALSE
    /\ outputs' = <<>>
    /\ result' = NoResult
    /\ response' = Response(400, "No image data received.")
    /\ trace' = <<>>
    /\ lookups' = <<>>
    /\ stdout' = <<>>
    /\ stderr' = <<>>
    /\ pc' = "done"
    /\ UNCHANGED <<model, labels>>

\* a request arrives with a body: it is logged and classify is called with it
Accept(body, dec) ==
    /\ pc \in {"idle", "done"}
    /\ ~is_empty(body)
    /\ image' = body
    /\ decodable' = dec
    /\ outputs' = <<>>
    /\ result' = NoResult
    /\ response' = NoResponse
    /\ trace' = <<>>
    /\ lookups' = <<>>
    /\ stdout' = <<"[Rust classifier]: Received image with " \o ToString(Len(body)) \o " bytes.">>
    /\ stderr' = <<>>
    /\ pc' = "load"
    /\ UNCHANGED <<model, labels>>

\* classify, stage 1: build the runnable model from the embedded graph
LoadModel ==
    /\ pc = "load"
    /\ IF model = "none"
       THEN /\ trace' = Append(trace, Stage("load", StageOk))
            /\ stdout' = Append(stdout, "[Rust classifier]: Loaded Tensorflow model.")
            /\ pc' = "decode"
            /\ UNCHANGED result
       ELSE /\ trace' = Append(trace, Stage("load", FromTractError(model)))
            /\ result' = FromTractError(model)
            /\ pc' = "respond"
            /\ UNCHANGED stdout
    /\ UNCHANGED <<model, labels, image, decodable, outputs, response, lookups, stderr>>

\* a decode stage that goes on with a blank image when the bytes do not decode
Decode_keep_going ==
    /\ pc = "decode"
    /\ trace' = Append(trace, Stage("decode", IF decodable THEN StageOk
                                               ELSE FromImageError("decode")))
    /\ stdout' = Append(stdout, "[Rust classifier]: Resized image to 224x224 px.")
    /\ pc' = "infer"
    /\ UNCHANGED <<model, labels, image, decodable, outputs, result, response,
                   lookups, stderr>>

\* classify, stage 2: decode the bytes, resize to 224x224, build the tensor
Decode ==
    /\ pc = "decode"
    /\ IF decodable
       THEN /\ trace' = Append(trace, Stage("decode", StageOk))
            /\ stdout' = Append(stdout, "[Rust classifier]: Resized image to 224x224 px.")
            /\ pc' = "infer"
            /\ UNCHANGED result
       ELSE /\ trace' = Append(trace, Stage("decode", FromImageError("decode")))
            /\ result' = FromImageError("decode")
            /\ pc' = "respond"
            /\ UNCHANGED stdout
    /\ UNCHANGED <<model, labels, image, decodable, outputs, response, lookups, stderr>>

\* classify, stage 3: run the model on the tensor
Infer(run) ==
    /\ pc = "infer"
    /\ IF run.ok
       THEN /\ trace' = Append(trace, Stage("infer", StageOk))
            /\ outputs' = run.outputs
            /\ pc' = "resolve"
            /\ UNCHANGED result
       ELSE /\ trace' = Append(trace, Stage("infer", FromTractError("run")))
            /\ result' = FromTractError("run")
            /\ pc' = "respond"
            /\ UNCHANGED outputs
    /\ UNCHANGED <<model, labels, image, decodable, response, lookups, stdout, stderr>>

\* classify, stage 4: the best score and its label; a panic ends the request
Resolve ==
    /\ pc = "resolve"
    /\ LET r == label_resolution(outputs)
       IN  /\ result' = r.result
           /\ lookups' = r.lookups
           /\ trace' = Append(trace, Stage("resolve", IF r.result.kind = "Ok" THEN StageOk
                                                       ELSE r.result))
           /\ stdout' = IF r.result.kind = "Ok"
                        THEN Append(stdout, "[Rust classifier]: Probability: "
                                             \o Display(r.result.probability) \o ", class: "
                                             \o r.result.label \o ".")
                        ELSE stdout
           /\ pc' = IF r.result.kind = "Panic" THEN "done" ELSE "respond"
    /\ UNCHANGED <<model, labels, image, decodable, outputs, response, stderr>>

\* the handler after classify returned: 500 with the error logged, or 200
Respond ==
    /\ pc = "respond"
    /\ IF result.kind = "Err"
       THEN /\ stderr' = Append(stderr, "[Rust classifier]: Error during classification: "
                                         \o Debug(result))
            /\ response' = error_response(result)
       ELSE /\ response' = success_response(result)
            /\ UNCHANGED stderr
    /\ pc' = "done"
    /\ UNCHANGED <<model, labels, image, decodable, outputs, result, trace, lookups, stdout>>

Next ==
    \/ \E body \in Bodies : RejectEmpty(body)
    \/ \E body \in Bodies, dec \in BOOLEAN : Accept(body, dec)
    \/ LoadModel
    \/ Decode
    \/ \E run \in RunResults : Infer(run)
    \/ Resolve
    \/ Respond

Spec == Init /\ [][Next]_vars

\* ------------------------------------------------------------- vocabulary
\* classify was called for the current request and has ended (returned or panicked)
ClassifyEnded == result.kind # "None"

\* the label-resolution stage has run for the current request
Resolved == Len(trace) > 0 /\ trace[Len(trace)].stage = "resolve"

\* the run returned one f32 tensor: its elements are the ScoreVector
HasScoreVector == Len(outputs) = 1 /\ outputs[1].datum_type = "f32"

ScoreVector == IF HasScoreVector THEN outputs[1].data ELSE <<>>

HasNaN(sv) == \E i \in 1..Len(sv) : sv[i] = NaN

\* the positions (1-based) holding the maximum of a vector without NaN
MaxPositions(sv) == {i \in 1..Len(sv) : \A j \in 1..Len(sv) : sv[j] <= sv[i]}

Lowest(S) == CHOOSE i \in S : \A j \in S : i <= j

Highest(S) == CHOOSE i \in S : \A j \in S : i >= j

Tied == Resolved /\ HasScoreVector /\ ~HasNaN(ScoreVector)
        /\ Cardinality(MaxPositions(ScoreVector)) >= 2

\* --------------------------------------------------------------- claim C1
\* C1 as stated: when two or more scores share the maximum, the class looked
\* up is the lowest position among them (first occurrence).
C1_FirstOccurrenceWins ==
    Tied => lookups = <<Lowest(MaxPositions(ScoreVector))>>

\* C1 amended: when two or more scores share the maximum, the class looked up
\* is the highest position among them (last occurrence): max_by replaces the
\* accumulator unless it compares strictly Greater.
C1_LastOccurrenceWins ==
    Tied => lookups = <<Highest(MaxPositions(ScoreVector))>>

C1_Witness ==
    Resolved /\ HasScoreVector /\ ScoreVector = <<1, 1, 0>> /\ lookups = <<2>>

\* --------------------------------------------------------------- claim C2
\* C2 as stated: bytes that cannot be decoded give Err(ImageError) whatever
\* happens in the other stages.
C2_UndecodableIsImageError ==
    (ClassifyEnded /\ ~decodable) => (result.kind = "Err" /\ result.variant = "ImageError")

\* C2 amended: bytes that cannot be decoded give Err(ImageError) when the
\* model was built, and Err(ModelError) when building the model failed
\* (the model is built before the bytes are looked at); never Ok.
C2_UndecodableAfterModelLoad ==
    (ClassifyEnded /\ ~decodable) =>
        /\ result.kind = "Err"
        /\ model = "none" => result.variant = "ImageError"
        /\ model # "none" => result.variant = "ModelError"

C2_Witness ==
    /\ pc = "done" /\ ~decodable /\ model = "none"
    /\ result.kind = "Err" /\ result.variant = "ImageError"

\* --------------------------------------------------------------- claim C3
\* C3: an empty body is answered 400 "No image data received." without any
\* stage of classify running, and classify only ever runs on a non-empty body.
C3_EmptyNeverClassified ==
    /\ (pc # "idle" /\ image = <<>>) =>
          /\ pc = "done"
          /\ response = Response(400, "No image data received.")
          /\ trace = <<>> /\ lookups = <<>> /\ outputs = <<>> /\ result = NoResult
    /\ (pc \in {"load", "decode", "infer", "resolve", "respond"}
          \/ trace # <<>> \/ ClassifyEnded) => Len(image) > 0

C3_Witness ==
    pc = "done" /\ image = <<>> /\ response.status = 400 /\ trace = <<>>

\* --------------------------------------------------------------- claim C4
\* C4: every failed classification is answered with status 500 and the fixed
\* body, for every variant and message; the variant is only logged.
C4_UniformFailureResponse ==
    /\ \A v \in ClassificationError, m \in {"", "run", "decode"} :
          error_response(Err(v, m)) = Response(500, "Error during classification")
    /\ (pc = "done" /\ result.kind = "Err") =>
          /\ response = Response(500, "Error during classification")
          /\ stderr = <<"[Rust classifier]: Error during classification: " \o Debug(result)>>

C4_Witness ==
    /\ pc = "done" /\ result.kind = "Err" /\ result.variant = "Unclassified"
    /\ response.status = 500

\* --------------------------------------------------------------- claim C5
\* C5: an empty ScoreVector gives Err(Unclassified), no panic and no call of
\* get_label.
C5_EmptyIsUnclassified ==
    (Resolved /\ HasScoreVector /\ Len(ScoreVector) = 0) =>
        /\ result = Err("Unclassified", "")
        /\ lookups = <<>>

C5_Witness ==
    /\ Resolved /\ HasScoreVector /\ Len(ScoreVector) = 0
    /\ result.variant = "Unclassified" /\ pc = "done"

\* --------------------------------------------------------------- claim C6
\* C6: a winning class beyond the last line of the label table ends the call
\* in the panic "cannot get prediction label": no Ok, no label, no response.
C6_OverflowIsFatal ==
    (Resolved /\ lookups # <<>> /\ lookups[1] > Len(labels)) =>
        /\ result = Panic("cannot get prediction label")
        /\ pc = "done"
        /\ response = NoResponse

C6_Witness ==
    /\ Resolved /\ lookups = <<3>> /\ Len(labels) = 2
    /\ result.kind = "Panic"

\* --------------------------------------------------------------- claim C7
\* C7: a returned Ok((label, probability)) carries line i of the label table
\* (1-indexed; raw position i-1) and the raw score at that position, and that
\* score is greater than or equal to every other score.
C7_OkIsLineAndRawMax ==
    result.kind = "Ok" =>
        /\ HasScoreVector
        /\ \E i \in 1..Len(ScoreVector) :
              /\ lookups = <<i>>
              /\ i <= Len(labels)
              /\ result.label = labels[i]
              /\ result.probability = ScoreVector[i]
              /\ \A j \in (1..Len(ScoreVector)) \ {i} :
                    partial_cmp(ScoreVector[i], ScoreVector[j]) \in {"Greater", "Equal"}

C7_Witness ==
    /\ result.kind = "Ok" /\ ScoreVector = <<0, 1>> /\ labels = <<"tench", "goldfish">>
    /\ result.label = "goldfish" /\ result.probability = 1

\* --------------------------------------------------------------- claim C8
StageOrder == <<"load", "decode", "infer", "resolve">>

\* the stages ran in order, each at most once, and only after the ones before succeeded
InOrderFailFast ==
    /\ Len(trace) <= Len(StageOrder)
    /\ \A k \in 1..Len(trace) : trace[k].stage = StageOrder[k]
    /\ \A k \in 1..(Len(trace) - 1) : trace[k].outcome = StageOk
    /\ result.kind = "Ok" =>
          /\ Len(trace) = Len(StageOrder)
          /\ \A k \in 1..Len(trace) : trace[k].outcome = StageOk

LastOutcome == trace[Len(trace)].outcome

\* C8 as stated: fixed order, fail fast, and the result of a call in which a
\* stage failed is the typed error of that stage.
C8_FailFastTypedError ==
    /\ InOrderFailFast
    /\ (trace # <<>> /\ LastOutcome # StageOk) =>
          /\ result = LastOutcome
          /\ result.kind = "Err"

\* C8 amended: fixed order, fail fast; a stage that fails with an error makes
\* that typed error the result; only label resolution can panic, and then the
\* call returns nothing and the request gets no response.
C8_FailFastErrorOrPanic ==
    /\ InOrderFailFast
    /\ (trace # <<>> /\ LastOutcome # StageOk) =>
          /\ result = LastOutcome
          /\ result.kind \in {"Err", "Panic"}
          /\ result.kind = "Panic" =>
                /\ trace[Len(trace)].stage = "resolve"
                /\ pc = "done"
                /\ response = NoResponse
    /\ (ClassifyEnded /\ result.kind # "Panic" /\ pc = "done") => response.status \in {200, 500}

C8_Witness ==
    /\ pc = "done" /\ Len(trace) = 2 /\ trace[2].stage = "decode"
    /\ result.variant = "ImageError"

\* --------------------------------------------------------------- claim C9
\* C9 as stated: a ScoreVector of two or more scores one of which is NaN
\* gives Err(Unclassified), neither a panic nor a label.
C9_NaNIsUnclassified ==
    (Resolved /\ HasScoreVector /\ Len(ScoreVector) >= 2 /\ HasNaN(ScoreVector)) =>
        result = Err("Unclassified", "")

\* -------------------------------------------------------------- claim C10
\* C10: classify only returns ModelError, ImageError or Unclassified, and a
\* label line that cannot be read comes back as ModelError.
C10_ErrorVariants ==
    /\ result.kind = "Err" => result.variant \in {"ModelError", "ImageError", "Unclassified"}
    /\ (Resolved /\ lookups # <<>> /\ lookups[1] <= Len(labels)
          /\ labels[lookups[1]] = InvalidUtf8) =>
          result = Err("ModelError", "stream did not contain valid UTF-8")

C10_Witness ==
    /\ Resolved /\ lookups = <<2>> /\ Len(labels) = 2 /\ labels[2] = InvalidUtf8
    /\ result.variant = "ModelError" /\ pc = "done"

====
